---- MODULE Spec2Model ----
(* State-machine model of nautilus-age-extension.py: the rate-limit ledger, *)
(* the decrypt batch (_do_decrypt_files), the encrypt operation             *)
(* (_do_encrypt_items) and the PTY secret channel (encrypt_file /           *)
(* decrypt_file).  A path is a sequence of string fragments whose first     *)
(* fragment is the directory and whose remaining fragments concatenate to   *)
(* the file name, so that suffix tests and suffix stripping are computed.   *)
EXTENDS Integers, Sequences, FiniteSets, TLC

VARIABLES now, failed_attempts, pc, paths, idx, invalid_files, bad_seen,
          password, success_count, fail_count, attempted, fs, procs, ret,
          ch, members, op, verified, temp_dir, tar_path, delete_originals,
          success, tar_created, bundle, missing_tools, vp_path, vp_result,
          list_returncode, preexisting

vars == <<now, failed_attempts, pc, paths, idx, invalid_files, bad_seen,
          password, success_count, fail_count, attempted, fs, procs, ret,
          ch, members, op, verified, temp_dir, tar_path, delete_originals,
          success, tar_created, bundle, missing_tools, vp_path,
          vp_result, list_returncode, preexisting>>

decVars == <<invalid_files, bad_seen, success_count, fail_count, attempted,
             members, verified, failed_attempts, list_returncode>>
encVars == <<temp_dir, tar_path, delete_originals, success, tar_created, bundle,
             missing_tools>>
pathVars == <<vp_path, vp_result>>

\* ---------------------------------------------------------------- bounds
MaxBatch == 2
MaxLedger == 4
MaxPathLen == 5

\* ------------------------------------------------------ program constants
\* os.sep
Sep == "/"
RATE_LIMIT_MAX_ATTEMPTS == 3
RATE_LIMIT_LOCKOUT_SECONDS == 30
RATE_LIMIT_WINDOW_SECONDS == 300
HeaderLen == 100
MagicLen == 21

\* ------------------------------------------------------------ input sets
\* The instants at which the clock is read
ClockValues == {0, 15, 30, 300, 330}
AgeA == <<"/d/", "a", ".age">>
AgeB == <<"/d/", "b", ".tar.gz", ".age">>
DecryptPaths == {AgeA, AgeB}
FileF == <<"/d/", "report", ".pdf">>
DirD == <<"/d/", "docs">>
\* a target in another directory with the same base name
FileG == <<"/e/", "report", ".pdf">>
\* targets below a system directory
FileU == <<"/etc/", "app", ".conf">>
DirU == <<"/etc/", "conf.d">>
EncryptPaths == {FileF, DirD, FileG, FileU, DirU}
Directories == {DirD, DirU}
\* the programs _do_encrypt_items runs that are not probed by check_dependencies
ExternalTools == {"tar", "shred"}
InitialFiles == DecryptPaths \cup EncryptPaths
Passphrases == {"tiger-ocean"}
\* A header is where the magic string starts in the file (-1: nowhere) and
\* whether the file can be opened.
Headers == { [readable |-> TRUE,  magic_at |-> 0],
             [readable |-> TRUE,  magic_at |-> 79],
             [readable |-> TRUE,  magic_at |-> 80],
             [readable |-> TRUE,  magic_at |-> -1],
             [readable |-> FALSE, magic_at |-> 0] }
\* Archive members as sequences of path segments; a leading "/" segment is
\* an absolute member name.
MemberSafe == <<"x", "y">>
MemberAbs == <<"/", "etc", "x">>
MemberParent == <<"..", "x">>
MemberOdd == <<"a..b">>
Archives == { <<MemberSafe>>, <<MemberSafe, MemberAbs>>,
              <<MemberParent, MemberSafe>>, <<MemberOdd>> }

\* --------------------------------------------------------------- helpers
Last(s) == s[Len(s)]
EndsWith(p, suffix) == Len(p) > 1 /\ Last(p) = suffix
EndsWithTarGz(p) == Len(p) > 1 /\ Last(p) = ".tar.gz"

\* line 645: file_path[:-4] if file_path.endswith('.age') else file_path + '.decrypted'
DecryptedPath(file_path) ==
    IF EndsWith(file_path, ".age")
    THEN SubSeq(file_path, 1, Len(file_path) - 1)
    ELSE Append(file_path, ".decrypted")

\* ---------------------------------------------------------- rate limiter
\* defaultdict(list): reading a missing key yields [] (and inserts it)
Attempts(fa, file_path) ==
    IF file_path \in DOMAIN fa THEN fa[file_path] ELSE <<>>

Store(fa, file_path, v) ==
    [q \in DOMAIN fa \cup {file_path} |-> IF q = file_path THEN v ELSE fa[q]]

InWindowInclusive(t, time) == time - t <= RATE_LIMIT_WINDOW_SECONDS
\* line 324
InWindow(t, time) == time - t < RATE_LIMIT_WINDOW_SECONDS

Pruned(attempts, time) == SelectSeq(attempts, LAMBDA t : InWindow(t, time))

RateLimitedFromFirst(attempts, time) ==
    /\ Len(attempts) >= RATE_LIMIT_MAX_ATTEMPTS
    /\ RATE_LIMIT_LOCKOUT_SECONDS - (time - attempts[1]) > 0
RateLimitedForever(attempts, time) ==
    Len(attempts) >= RATE_LIMIT_MAX_ATTEMPTS
RateLimitedLoose(attempts, time) ==
    /\ Len(attempts) >= RATE_LIMIT_MAX_ATTEMPTS
    /\ RATE_LIMIT_LOCKOUT_SECONDS - (time - Last(attempts)) >= 0
\* lines 328-334 on the pruned list
RateLimited(attempts, time) ==
    /\ Len(attempts) >= RATE_LIMIT_MAX_ATTEMPTS
    /\ RATE_LIMIT_LOCKOUT_SECONDS - (time - Last(attempts)) > 0

\* check_rate_limit: the ledger after the call, and its return value
CheckLedger(fa, file_path, time) ==
    Store(fa, file_path, Pruned(Attempts(fa, file_path), time))
check_rate_limit(fa, file_path, time) ==
    ~RateLimited(Pruned(Attempts(fa, file_path), time), time)

record_failed_attempt_shared(fa, file_path, time) ==
    [q \in DOMAIN fa \cup {file_path} |-> Append(Attempts(fa, q), time)]
\* lines 337-339
record_failed_attempt(fa, file_path, time) ==
    Store(fa, file_path, Append(Attempts(fa, file_path), time))

clear_failed_attempts_keep(fa, file_path) ==
    [q \in DOMAIN fa |-> IF q = file_path /\ Len(fa[q]) > 0 THEN Tail(fa[q]) ELSE fa[q]]
clear_failed_attempts(fa, file_path) ==
    [q \in DOMAIN fa \ {file_path} |-> fa[q]]

\* -------------------------------------------------------- signature check
verify_age_file_whole(h) == h.readable /\ h.magic_at >= 0
\* lines 844-852: magic must lie wholly inside the first 100 bytes
verify_age_file(h) ==
    h.readable /\ h.magic_at >= 0 /\ h.magic_at + MagicLen <= HeaderLen

\* ------------------------------------------------------- spawned processes
\* argv is a sequence of arguments, each a sequence of string fragments;
\* stdin says what the parent feeds the child ("pty": the PTY slave,
\* "pipe": a pipe carrying the passphrase, "none"); archive is the member
\* list of the archive a tar invocation works on.
Arg(s) == <<s>>
Proc(argv, stdin, archive) == [argv |-> argv, stdin |-> stdin, archive |-> archive]

\* show_error, lines 1076-1087
ErrorProc(title, message) ==
    Proc(<<Arg("zenity"), Arg("--error"), Arg("--title"), Arg(title),
           Arg("--text"), Arg(message)>>, "none", <<>>)
\* show_notification, lines 1064-1074
NotifyProc(title) ==
    Proc(<<Arg("notify-send"), Arg("-i"), Arg("dialog-information"), Arg(title)>>, "none", <<>>)
\* ask_password, lines 945-952
PromptProc ==
    Proc(<<Arg("zenity"), Arg("--password"), Arg("--title"), Arg("Decrypt")>>, "none", <<>>)
\* Popen argv of encrypt_file (line 697) and decrypt_file (line 769)
AgeProc(mode, output_path, input_path) ==
    Proc(<<Arg("age"), Arg(IF mode = "encrypt" THEN "-p" ELSE "-d"), Arg("-o"),
           output_path, input_path>>, "pty", <<>>)
\* lines 656-659 and 665-668
TarListProc(archive_path, archive) ==
    Proc(<<Arg("tar"), Arg("-tzf"), archive_path>>, "none", archive)
TarExtractProc(archive_path, archive) ==
    Proc(<<Arg("tar"), Arg("-xzf"), archive_path, Arg("-C"), <<archive_path[1]>> >>,
         "none", archive)

\* ------------------------------------------------------------------ state
\* master_fd and slave_fd are the two local variables (None or a
\* descriptor); open_fds are the descriptors open in the parent and closes
\* counts the os.close calls that succeeded on each.
ChIdle == [mode |-> "none", input_path |-> <<>>, output_path |-> <<>>,
           password |-> "None", master_fd |-> "None", slave_fd |-> "None",
           open_fds |-> {}, closes |-> [master |-> 0, slave |-> 0],
           process |-> "None", writes |-> 0, returncode |-> -1,
           exc |-> "none", exists_at_exit |-> FALSE, ret |-> "none"]

\* The state after __init__ (lines 266-274), with no operation under way
Constructed ==
    /\ now = 0
    /\ failed_attempts = <<>>
    /\ pc = "idle"
    /\ paths = <<>>
    /\ idx = 0
    /\ invalid_files = <<>>
    /\ bad_seen = FALSE
    /\ password = "None"
    /\ success_count = 0
    /\ fail_count = 0
    /\ attempted = {}
    /\ fs = InitialFiles
    /\ procs = {}
    /\ ret = "none"
    /\ ch = ChIdle
    /\ members = <<>>
    /\ op = "none"
    /\ verified = {}
    /\ temp_dir = <<>>
    /\ tar_path = <<>>
    /\ delete_originals = FALSE
    /\ success = FALSE
    /\ tar_created = FALSE
    /\ bundle = {}
    /\ missing_tools = {}
    /\ list_returncode = -1
    /\ preexisting = {}

Init ==
    /\ Constructed
    /\ vp_path = <<Sep>>
    /\ vp_result = "none"

RECURSIVE LedgerTotal(_, _)
LedgerTotal(fa, keys) ==
    IF keys = {} THEN 0
    ELSE LET k == CHOOSE k \in keys : TRUE
         IN Len(fa[k]) + LedgerTotal(fa, keys \ {k})

\* Files that may already lie at the output path of a decryption when the
\* operation starts
OutputsInPlace == {DecryptedPath(AgeA)}

Batches == UNION { [1..n -> DecryptPaths] : n \in 1..MaxBatch }

\* Time passes while the program is idle or blocked on a prompt or a child.
Tick ==
    /\ pc \in {"idle", "ask", "ch_wait"}
    /\ \E t \in ClockValues : t > now /\ now' = t
    /\ UNCHANGED <<failed_attempts, pc, paths, idx, invalid_files, bad_seen,
                   password, success_count, fail_count, attempted, fs, procs,
                   ret, ch, members, verified, temp_dir, tar_path,
                   delete_originals, success, tar_created, bundle, missing_tools,
                   list_returncode, preexisting>>
    /\ UNCHANGED pathVars

\* The callback has returned to the GLib main loop (it returned False or
\* raised, so it is not rescheduled); its locals are gone and the outputs
\* are taken away before the next activation.
Returned ==
    /\ pc = "returned"
    /\ pc' = "idle"
    /\ paths' = <<>>
    /\ idx' = 0
    /\ invalid_files' = <<>>
    /\ bad_seen' = FALSE
    /\ password' = "None"
    /\ success_count' = 0
    /\ fail_count' = 0
    /\ attempted' = {}
    /\ fs' = InitialFiles
    /\ procs' = {}
    /\ ret' = "none"
    /\ ch' = ChIdle
    /\ members' = <<>>
    /\ verified' = {}
    /\ temp_dir' = <<>>
    /\ tar_path' = <<>>
    /\ delete_originals' = FALSE
    /\ success' = FALSE
    /\ tar_created' = FALSE
    /\ bundle' = {}
    /\ missing_tools' = {}
    /\ list_returncode' = -1
    /\ preexisting' = {}
    /\ UNCHANGED <<now, failed_attempts>>
    /\ UNCHANGED pathVars

\* ------------------------------------------------------ _do_decrypt_files
\* GLib runs the callback scheduled by on_decrypt_files (line 609)
StartDecrypt ==
    /\ pc = "idle"
    /\ \E ps \in Batches, pre \in SUBSET OutputsInPlace :
         /\ LedgerTotal(failed_attempts, DOMAIN failed_attempts) + Len(ps) <= MaxLedger
         /\ paths' = ps
         /\ preexisting' = pre
         /\ fs' = fs \cup pre
    /\ op' = "decrypt"
    /\ pc' = "rl_check"
    /\ idx' = 1
    /\ UNCHANGED <<now, failed_attempts, invalid_files, bad_seen, password,
                   success_count, fail_count, attempted, procs, ret, ch,
                   members, verified, temp_dir, tar_path, delete_originals,
                   success, tar_created, bundle, missing_tools, list_returncode>>
    /\ UNCHANGED pathVars

\* lines 621-623: one iteration of the rate-limit loop
RateCheck ==
    /\ pc = "rl_check"
    /\ failed_attempts' = CheckLedger(failed_attempts, paths[idx], now)
    /\ IF check_rate_limit(failed_attempts, paths[idx], now)
       THEN /\ IF idx < Len(paths)
               THEN idx' = idx + 1 /\ pc' = "rl_check"
               ELSE idx' = 1 /\ pc' = "verify"
            /\ UNCHANGED <<procs, ret>>
       ELSE /\ procs' = procs \cup {ErrorProc("Rate Limited", "Too many failed attempts")}
            /\ ret' = "False"
            /\ pc' = "returned"
            /\ UNCHANGED idx
    /\ UNCHANGED <<now, paths, invalid_files, bad_seen, password, success_count,
                   fail_count, attempted, fs, ch, members>>

\* lines 627-634: one iteration of the verification loop, then the verdict
Verify ==
    /\ pc = "verify"
    /\ \E h \in Headers :
         LET inv == IF verify_age_file(h) THEN invalid_files
                    ELSE Append(invalid_files, Tail(paths[idx]))
         IN /\ invalid_files' = inv
            /\ verified' = verified \cup {idx}
            /\ bad_seen' = (bad_seen \/ ~(h.readable /\ h.magic_at >= 0
                                          /\ h.magic_at + 21 <= 100))
            /\ IF idx < Len(paths)
               THEN idx' = idx + 1 /\ pc' = "verify" /\ UNCHANGED <<procs, ret>>
               ELSE IF inv # <<>>
                    THEN /\ procs' = procs \cup {ErrorProc("Invalid files", "Not valid .age files")}
                         /\ ret' = "False"
                         /\ pc' = "returned"
                         /\ UNCHANGED idx
                    ELSE idx' = 1 /\ pc' = "ask" /\ UNCHANGED <<procs, ret>>
    /\ UNCHANGED <<now, failed_attempts, paths, password, success_count,
                   fail_count, attempted, fs, ch, members>>

NoPasswordNever(pw) == FALSE
\* lines 501 and 638: 'if not password' holds for None and for the empty
\* string
NoPassword(pw) == pw \in {"None", ""}

\* lines 637-639: ask_password (lines 942-960) and the empty-password test.
\* A missing zenity raises FileNotFoundError, which ask_password does not
\* catch, so it leaves the callback.
AskPassword ==
    /\ pc = "ask"
    /\ \E outcome \in {"entered", "empty", "cancel", "timeout", "missing"},
          pw \in Passphrases :
         LET result == IF outcome = "entered" THEN pw
                       ELSE IF outcome = "empty" THEN "" ELSE "None"
         IN /\ procs' = IF outcome = "missing" THEN procs ELSE procs \cup {PromptProc}
            /\ password' = result
            /\ IF outcome = "missing"
               THEN ret' = "raised" /\ pc' = "returned"
               ELSE IF NoPassword(result)
               THEN ret' = "False" /\ pc' = "returned"
               ELSE pc' = "dec" /\ UNCHANGED ret
    /\ UNCHANGED <<now, failed_attempts, paths, idx, invalid_files, bad_seen,
                   success_count, fail_count, attempted, fs, ch, members>>

\* lines 644-647: the loop head computes the output path and calls decrypt_file
DecryptCall ==
    /\ pc = "dec"
    /\ ch' = [ChIdle EXCEPT !.mode = "decrypt",
                            !.input_path = paths[idx],
                            !.output_path = DecryptedPath(paths[idx]),
                            !.password = password]
    /\ attempted' = attempted \cup {idx}
    /\ pc' = "ch_open"
    /\ UNCHANGED <<now, failed_attempts, paths, idx, invalid_files, bad_seen,
                   password, success_count, fail_count, fs, procs, ret, members>>

\* ------------------------------------------- encrypt_file / decrypt_file
WritesNeededOnce(mode) == 1
\* encrypt writes the passphrase twice (lines 712-714), decrypt once (784)
WritesNeeded(mode) == IF mode = "encrypt" THEN 2 ELSE 1

SuccessExitOnly(returncode, output_exists) == returncode = 0
\* lines 719 and 789
Success(returncode, output_exists) == returncode = 0 /\ output_exists

\* Which except clauses remove the output file: all three of decrypt_file
\* (lines 807-827), none of encrypt_file (lines 732-743).
ExceptRemovesOutput(mode, exc) == mode = "decrypt"

\* pty.openpty(), lines 694 and 766
ChOpen ==
    /\ pc = "ch_open"
    /\ \/ /\ ch' = [ch EXCEPT !.master_fd = "fd", !.slave_fd = "fd",
                                  !.open_fds = {"master", "slave"}]
          /\ pc' = "ch_spawn"
       \/ /\ ch' = [ch EXCEPT !.exc = "OSError"]
          /\ pc' = "ch_except"
    /\ UNCHANGED <<now, failed_attempts, paths, idx, invalid_files, bad_seen,
                   password, success_count, fail_count, attempted, fs, procs,
                   ret, members>>

\* subprocess.Popen, lines 696-701 and 768-773
ChSpawn ==
    /\ pc = "ch_spawn"
    /\ \/ /\ ch' = [ch EXCEPT !.process = "running"]
          /\ procs' = procs \cup {AgeProc(ch.mode, ch.output_path, ch.input_path)}
          /\ pc' = "ch_close_slave"
       \/ /\ ch' = [ch EXCEPT !.exc = "OSError"]
          /\ pc' = "ch_except"
          /\ UNCHANGED procs
    /\ UNCHANGED <<now, failed_attempts, paths, idx, invalid_files, bad_seen,
                   password, success_count, fail_count, attempted, fs, ret,
                   members>>

\* os.close(slave_fd); slave_fd = None, lines 704-705 and 776-777
ChCloseSlave ==
    /\ pc = "ch_close_slave"
    /\ ch' = [ch EXCEPT !.slave_fd = "None",
                        !.open_fds = @ \ {"slave"},
                        !.closes.slave = @ + 1]
    /\ pc' = "ch_write"
    /\ UNCHANGED <<now, failed_attempts, paths, idx, invalid_files, bad_seen,
                   password, success_count, fail_count, attempted, fs, procs,
                   ret, members>>

\* os.write(master_fd, password + newline), lines 712-714 and 784; the
\* encode may raise a non-OSError, the write an OSError
ChWrite ==
    /\ pc = "ch_write"
    /\ \/ /\ ch' = [ch EXCEPT !.writes = @ + 1]
          /\ pc' = IF ch.writes + 1 >= WritesNeeded(ch.mode) THEN "ch_wait" ELSE "ch_write"
       \/ \E e \in {"OSError", "Exception"} :
            /\ ch' = [ch EXCEPT !.exc = e]
            /\ pc' = "ch_except"
    /\ UNCHANGED <<now, failed_attempts, paths, idx, invalid_files, bad_seen,
                   password, success_count, fail_count, attempted, fs, procs,
                   ret, members>>

\* process.communicate(timeout=120) and the result test, lines 717-730 and
\* 787-800.  The child may or may not have written the output file.
ChWait ==
    /\ pc = "ch_wait"
    /\ \E wrote \in BOOLEAN :
         LET fs1 == IF wrote THEN fs \cup {ch.output_path} ELSE fs
             exists == ch.output_path \in fs1
         IN \/ \E rc \in {0, 1} :
                 /\ ch' = [ch EXCEPT !.process = "reaped", !.returncode = rc,
                                     !.exists_at_exit = exists,
                                     !.ret = IF Success(rc, exists) THEN "True" ELSE "False"]
                 /\ fs' = IF Success(rc, exists) THEN fs1 ELSE fs1 \ {ch.output_path}
                 /\ pc' = "ch_finally"
            \/ /\ ch' = [ch EXCEPT !.exc = "TimeoutExpired", !.exists_at_exit = exists]
               /\ fs' = fs1
               /\ pc' = "ch_except"
    /\ UNCHANGED <<now, failed_attempts, paths, idx, invalid_files, bad_seen,
                   password, success_count, fail_count, attempted, procs, ret,
                   members>>

KillsNever(exc, process) == FALSE
\* lines 732-736 and 802-806: only the TimeoutExpired clause has
\* 'if process: process.kill(); process.wait()'
KillsAndWaits(exc, process) == exc = "TimeoutExpired" /\ process # "None"

\* the except clauses, lines 732-743 and 802-828; each returns False
ChExcept ==
    /\ pc = "ch_except"
    /\ ch' = [ch EXCEPT !.process = IF KillsAndWaits(ch.exc, ch.process)
                                    THEN "reaped" ELSE @,
                        !.ret = "False"]
    /\ fs' = IF ExceptRemovesOutput(ch.mode, ch.exc) THEN fs \ {ch.output_path} ELSE fs
    /\ pc' = "ch_finally"
    /\ UNCHANGED <<now, failed_attempts, paths, idx, invalid_files, bad_seen,
                   password, success_count, fail_count, attempted, procs, ret,
                   members>>

FinallyClosesNothing(fd_var) == FALSE
\* lines 746, 751, 831 and 836: if <fd> is not None: os.close(<fd>)
FinallyCloses(fd_var) == fd_var # "None"

\* the finally clauses, lines 744-755 and 829-840, and the return; closing
\* a descriptor that is not open raises OSError, which is passed over
ChFinally ==
    /\ pc = "ch_finally"
    /\ LET closing == (IF FinallyCloses(ch.master_fd) THEN {"master"} ELSE {})
                          \cup (IF FinallyCloses(ch.slave_fd) THEN {"slave"} ELSE {})
       IN ch' = [ch EXCEPT
                   !.open_fds = @ \ closing,
                   !.closes = [fd \in {"master", "slave"} |->
                                 IF fd \in closing /\ fd \in ch.open_fds
                                 THEN @[fd] + 1 ELSE @[fd]]]
    /\ pc' = IF ch.mode = "decrypt" THEN "dec_ret" ELSE "enc_ret"
    /\ UNCHANGED <<now, failed_attempts, paths, idx, invalid_files, bad_seen,
                   password, success_count, fail_count, attempted, fs, procs,
                   ret, members>>

\* line 662: member.startswith('/') or '..' in member (a substring test)
ContainsDotDot(segment) == segment \in {"..", "a..b"}
MemberRejected(member) ==
    member[1] = "/" \/ \E i \in 1..Len(member) : ContainsDotDot(member[i])

\* line 660: the member list is examined only when tar -tzf exited with 0
ListValidated(returncode) == returncode = 0

ExtractedFiles(dir, archive) == { <<dir>> \o archive[i] : i \in 1..Len(archive) }

\* the for statement of line 644 moves to the next target or leaves the loop
NextTargetOrStop == idx' = idx /\ pc' = "report"
\* line 644: the for loop goes to the next target, or ends
NextTarget ==
    IF idx < Len(paths) THEN idx' = idx + 1 /\ pc' = "dec"
    ELSE idx' = idx /\ pc' = "report"

\* lines 647-653 and 672-675: the two branches on decrypt_file's result;
\* decrypt_file's frame is gone once its result has been taken
DecryptReturn ==
    /\ pc = "dec_ret"
    /\ IF ch.ret = "True"
       THEN /\ success_count' = success_count + 1
            /\ failed_attempts' = clear_failed_attempts(failed_attempts, paths[idx])
            /\ UNCHANGED fail_count
            /\ IF EndsWithTarGz(DecryptedPath(paths[idx]))
               THEN pc' = "list" /\ UNCHANGED idx
               ELSE NextTarget
       ELSE /\ fail_count' = fail_count + 1
            /\ failed_attempts' = record_failed_attempt(failed_attempts, paths[idx], now)
            /\ UNCHANGED success_count
            /\ NextTarget
    /\ ch' = ChIdle
    /\ UNCHANGED <<now, paths, invalid_files, bad_seen, password, attempted,
                   fs, procs, ret, members>>

\* lines 654-663: tar -tzf and the member validation.  TimeoutExpired,
\* FileNotFoundError and the ValueError of line 663 are not caught by the
\* except clause of line 670 and leave the callback.
TarList ==
    /\ pc = "list"
    /\ \E archive \in Archives, outcome \in {"ok", "failed", "timeout", "missing"} :
         /\ members' = archive
         /\ list_returncode' = (CASE outcome = "ok" -> 0
                                  [] outcome = "failed" -> 2
                                  [] OTHER -> -1)
         /\ procs' = IF outcome = "missing" THEN procs
                     ELSE procs \cup {TarListProc(DecryptedPath(paths[idx]), archive)}
         /\ IF \/ outcome \in {"timeout", "missing"}
               \/ /\ ListValidated(list_returncode')
                  /\ \E i \in 1..Len(archive) : MemberRejected(archive[i])
            THEN pc' = "returned" /\ ret' = "raised"
            ELSE pc' = "extract" /\ UNCHANGED ret
    /\ UNCHANGED <<now, failed_attempts, paths, idx, invalid_files, bad_seen,
                   password, success_count, fail_count, attempted, fs, ch>>

ExtractAndKeep(files, archive_path, archive) ==
    files \cup ExtractedFiles(archive_path[1], archive)
\* lines 665-669: tar -xzf exited with 0, then os.remove(decrypted_path)
ExtractAndRemove(files, archive_path, archive) ==
    (files \cup ExtractedFiles(archive_path[1], archive)) \ {archive_path}

\* lines 665-670: tar -xzf with check=True, then os.remove of the archive;
\* a non-zero exit raises CalledProcessError before the removal, possibly
\* after some members were written
TarExtract ==
    /\ pc = "extract"
    /\ procs' = procs \cup {TarExtractProc(DecryptedPath(paths[idx]), members)}
    /\ \E outcome \in {"ok", "failed"} :
         IF outcome = "ok"
         THEN /\ fs' = ExtractAndRemove(fs, DecryptedPath(paths[idx]), members)
              /\ NextTarget
         ELSE /\ \E partial \in BOOLEAN :
                   fs' = IF partial
                         THEN fs \cup ExtractedFiles(DecryptedPath(paths[idx])[1], members)
                         ELSE fs
              /\ pc' = "extract_err"
              /\ UNCHANGED idx
    /\ UNCHANGED <<now, failed_attempts, paths, invalid_files, bad_seen,
                   password, success_count, fail_count, attempted, ret, ch,
                   members>>

\* lines 670-671: CalledProcessError is caught and shown; the archive stays
ExtractFailed ==
    /\ pc = "extract_err"
    /\ procs' = procs \cup {ErrorProc("Error", "Extraction failed")}
    /\ NextTarget
    /\ UNCHANGED <<now, failed_attempts, paths, invalid_files, bad_seen,
                   password, success_count, fail_count, attempted, fs, ret, ch,
                   members>>

\* lines 677-683: the two summary messages and the return
Report ==
    /\ pc = "report"
    /\ procs' = procs
          \cup (IF success_count > 0 THEN {NotifyProc("Done")} ELSE {})
          \cup (IF fail_count > 0 THEN {ErrorProc("Error", "Failed")} ELSE {})
    /\ ret' = "False"
    /\ pc' = "returned"
    /\ UNCHANGED <<now, failed_attempts, paths, idx, invalid_files, bad_seen,
                   password, success_count, fail_count, attempted, fs, ch,
                   members>>


\* ------------------------------------------------------ _do_encrypt_items
IsFile(files, p) == p \in files /\ p \notin Directories
IsDir(files, p) == p \in files /\ p \in Directories

\* tempfile.mkdtemp(prefix='age_bundle_'), line 510
TempDir == <<"/tmp/age_bundle_/">>
\* line 516: os.path.join(temp_dir, basename)
Staged(item_path) == TempDir \o Tail(item_path)
RmTreeSkip(files, dir) == files
\* shutil.rmtree(temp_dir), line 603
RmTree(files, dir) == { f \in files : f[1] # dir[1] }

\* lines 541-548: the archive is named after the only target, or after a
\* timestamp when there are several
TarPath(ps) ==
    <<ps[1][1]>> \o (IF Len(ps) = 1 THEN Tail(ps[1]) ELSE <<"encrypted_bundle_", "timestamp">>)
                 \o <<".tar.gz">>

\* ----------------------------------------------------------- validate_path
\* Here a path string is spelled out as a sequence of fragments in which the
\* separator is a fragment of its own, so that isabs, split and startswith
\* are computed on the string: "/usrdata/x" is <<"/", "usr", "data", "/", "x">>.
PathFragments == {Sep, "usr", "data", "root", "ed", "..", "home", "link"}
PathStrings == UNION { [1..n -> PathFragments] : n \in 0..MaxPathLen }

\* os.path.isabs, line 286
isabs(path) == path # <<>> /\ path[1] = Sep

RECURSIVE SplitFrom(_, _, _, _)
SplitFrom(str, i, cur, acc) ==
    IF i > Len(str) THEN Append(acc, cur)
    ELSE IF str[i] = Sep THEN SplitFrom(str, i + 1, <<>>, Append(acc, cur))
    ELSE SplitFrom(str, i + 1, Append(cur, str[i]), acc)
\* str.split(os.sep), line 299
split(str) == SplitFrom(str, 1, <<>>, <<>>)

\* The file system the paths are resolved in has one symbolic link,
\* /link -> /usr; every other name resolves to itself.
IsSymlink(dir, name) == dir = <<>> /\ name = <<"link">>
SymlinkTarget == << <<"usr">> >>

\* os.path.realpath, line 292, on the components of an absolute path: empty
\* components are skipped, '..' steps to the parent (the root is its own
\* parent), a symbolic link is replaced by its target
RECURSIVE JoinRealPath(_, _)
JoinRealPath(dir, rest) ==
    IF rest = <<>> THEN dir
    ELSE LET name == Head(rest)
         IN IF name = <<>> THEN JoinRealPath(dir, Tail(rest))
            ELSE IF name = <<"..">>
            THEN JoinRealPath(IF dir = <<>> THEN dir ELSE SubSeq(dir, 1, Len(dir) - 1),
                              Tail(rest))
            ELSE IF IsSymlink(dir, name) THEN JoinRealPath(SymlinkTarget, Tail(rest))
            ELSE JoinRealPath(Append(dir, name), Tail(rest))

RECURSIVE JoinComponents(_)
JoinComponents(components) ==
    IF components = <<>> THEN <<>>
    ELSE <<Sep>> \o Head(components) \o JoinComponents(Tail(components))
realpath(path) ==
    LET components == JoinRealPath(<<>>, split(path))
    IN IF components = <<>> THEN <<Sep>> ELSE JoinComponents(components)

\* str.startswith
StartsWith(str, prefix) ==
    Len(str) >= Len(prefix) /\ SubSeq(str, 1, Len(prefix)) = prefix

\* line 304
dangerous_prefixes ==
    { <<Sep, "bin">>, <<Sep, "sbin">>, <<Sep, "usr">>, <<Sep, "etc">>,
      <<Sep, "var">>, <<Sep, "boot">>, <<Sep, "root">> }
UnderPrefixLoose(resolved, prefix) == StartsWith(resolved, prefix)
\* line 306
UnderPrefix(resolved, prefix) ==
    StartsWith(resolved, prefix \o <<Sep>>) \/ resolved = prefix

\* lines 276-310
validate_path(path) ==
    IF ~isabs(path) THEN FALSE
    ELSE LET resolved == realpath(path)
         IN IF \E i \in 1..Len(split(resolved)) : split(resolved)[i] = <<"..">>
            THEN FALSE
            ELSE \A prefix \in dangerous_prefixes : ~UnderPrefix(resolved, prefix)

\* The targets' directories spelled out as path strings
PathString(p) ==
    (CASE p[1] = "/d/" -> <<Sep, "d", Sep>>
       [] p[1] = "/e/" -> <<Sep, "e", Sep>>
       [] p[1] = "/etc/" -> <<Sep, "etc", Sep>>
       [] OTHER -> <<Sep, "tmp", Sep, "age_bundle_", Sep>>) \o Tail(p)

\* validate_path is applied to a path string
ValidatePath ==
    /\ vp_result = "none"
    /\ vp_result' = IF validate_path(vp_path) THEN "True" ELSE "False"
    /\ UNCHANGED vp_path


EncryptedPathBare(archive_path) ==
    SubSeq(archive_path, 1, Len(archive_path) - 1) \o <<".age">>
\* line 556: encrypted_path = f"{tar_path}.age"
EncryptedPath(archive_path) == Append(archive_path, ".age")

\* ask_password_method, lines 1012-1025: the passphrase is part of the
\* --text argument of the zenity dialog
QuestionProc(passphrase) ==
    Proc(<<Arg("zenity"), Arg("--question"), Arg("--title"), Arg("Secure Passphrase"),
           Arg("--text"), <<"<tt><b>", passphrase, "</b></tt>">>,
           Arg("--ok-label"), Arg("Encrypt (keep original)"),
           Arg("--cancel-label"), Arg("Cancel"),
           Arg("--extra-button"), Arg("Encrypt & Delete original"),
           Arg("--width"), Arg("550")>>, "none", <<>>)
\* copy_to_clipboard, lines 983-989: the passphrase goes to wl-copy's stdin
ClipboardProc == Proc(<<Arg("wl-copy")>>, "pipe", <<>>)
\* lines 551-553
TarCreateProc(archive_path) ==
    Proc(<<Arg("tar"), Arg("-czf"), archive_path, Arg("-C"), TempDir, Arg(".")>>,
         "none", <<>>)
\* secure_delete, lines 859-863
ShredProc(file_path) ==
    Proc(<<Arg("shred"), Arg("-vfzu"), Arg("-n"), Arg("3"), file_path>>, "none", <<>>)

EncBatches == UNION { [1..n -> EncryptPaths] : n \in 1..MaxBatch }

\* Files of the user's that may already lie at the archive path of line 548
\* when the operation starts: docs.tar.gz next to the directory docs
ArchivesInPlace == {TarPath(<<DirD>>)}

\* GLib runs the callback scheduled by on_encrypt_items (line 491)
\* with some of the external tools possibly not installed; the menu item
\* exists only if 'age --version' ran (lines 345-360 and 392-393)
StartEncrypt ==
    /\ pc = "idle"
    /\ \E ps \in EncBatches, pre \in SUBSET ArchivesInPlace :
         /\ paths' = ps
         /\ preexisting' = pre
         /\ fs' = fs \cup pre
    /\ missing_tools' \in SUBSET ExternalTools
    /\ op' = "encrypt"
    /\ pc' = "e_ask"
    /\ idx' = 1
    /\ UNCHANGED <<now, password, procs, ret, ch, temp_dir, tar_path,
                   delete_originals, success, tar_created, bundle>>
    /\ UNCHANGED decVars
    /\ UNCHANGED pathVars

\* lines 500-510: ask_password_method (lines 994-1048), the cancel test,
\* the progress notification and mkdtemp
EncAsk ==
    /\ pc = "e_ask"
    /\ \E passphrase \in Passphrases,
          outcome \in {"ok", "delete", "cancel", "timeout", "missing"},
          clip \in BOOLEAN :
         LET asked == IF outcome = "missing" THEN {}
                      ELSE {QuestionProc(passphrase)}
                             \cup (IF clip THEN {ClipboardProc} ELSE {})
             result == IF outcome \in {"ok", "delete"} THEN passphrase ELSE "None"
         IN IF ~NoPassword(result)
            THEN /\ password' = result
                 /\ delete_originals' = (outcome = "delete")
                 /\ \/ /\ temp_dir' = TempDir
                       /\ fs' = fs \cup {TempDir}
                       /\ procs' = procs \cup asked \cup {NotifyProc("Encrypting...")}
                       /\ pc' = "e_copy"
                    \/ /\ procs' = procs \cup asked \cup {NotifyProc("Encrypting...")}
                       /\ pc' = "e_except"
                       /\ UNCHANGED <<temp_dir, fs>>
            ELSE /\ procs' = procs \cup asked
                 /\ pc' = "e_finally"
                 /\ UNCHANGED <<password, delete_originals, temp_dir, fs>>
    /\ ret' = "False"
    /\ UNCHANGED <<now, paths, idx, ch, tar_path, success, tar_created, bundle,
                   missing_tools>>
    /\ UNCHANGED decVars

\* The staging directory's entries are pairs <<name, source>>: the entry
\* called name holds a copy of source.
Names(entries) == { e[1] : e \in entries }
\* line 519: shutil.copy2 writes dest, replacing a file already there
CopyFile(entries, item_path) ==
    { e \in entries : e[1] # Tail(item_path) } \cup {<<Tail(item_path), item_path>>}

\* lines 513-548: one iteration of the staging loop; after the last one the
\* archive path is computed.  The destination is named by the target's
\* basename alone; copytree raises FileExistsError when it exists, and
\* copy2 and copytree may raise for other reasons.
EncCopy ==
    /\ pc = "e_copy"
    /\ LET item_path == paths[idx]
           continue == IF idx < Len(paths)
                       THEN idx' = idx + 1 /\ pc' = "e_copy" /\ UNCHANGED tar_path
                       ELSE idx' = 1 /\ pc' = "e_tar" /\ tar_path' = TarPath(paths)
           raise == pc' = "e_except" /\ UNCHANGED <<fs, idx, tar_path, bundle>>
       IN IF IsFile(fs, item_path)
          THEN \/ /\ fs' = fs \cup {Staged(item_path)}
                  /\ bundle' = CopyFile(bundle, item_path)
                  /\ continue
               \/ raise
          ELSE IF IsDir(fs, item_path)
          THEN \/ /\ Tail(item_path) \notin Names(bundle)
                  /\ fs' = fs \cup {Staged(item_path)}
                  /\ bundle' = bundle \cup {<<Tail(item_path), item_path>>}
                  /\ continue
               \/ raise
          ELSE continue /\ UNCHANGED <<fs, bundle>>
    /\ UNCHANGED <<now, paths, password, procs, ret, ch, temp_dir,
                   delete_originals, success, tar_created, missing_tools>>
    /\ UNCHANGED decVars

\* lines 551-557: tar -czf with check=True, then the call of encrypt_file.
\* A failing tar may leave a partial archive behind.
EncTar ==
    /\ pc = "e_tar"
    /\ \/ /\ "tar" \notin missing_tools
          /\ procs' = procs \cup {TarCreateProc(tar_path)}
          /\ fs' = fs \cup {tar_path}
          /\ tar_created' = TRUE
          /\ ch' = [ChIdle EXCEPT !.mode = "encrypt",
                                  !.input_path = tar_path,
                                  !.output_path = EncryptedPath(tar_path),
                                  !.password = password]
          /\ pc' = "ch_open"
       \/ \E partial \in BOOLEAN :
            /\ "tar" \notin missing_tools
            /\ procs' = procs \cup {TarCreateProc(tar_path)}
            /\ fs' = IF partial THEN fs \cup {tar_path} ELSE fs
            /\ tar_created' = partial
            /\ pc' = "e_except"
            /\ UNCHANGED ch
       \/ /\ "tar" \in missing_tools
          /\ pc' = "e_except"
          /\ UNCHANGED <<procs, fs, tar_created, ch>>
    /\ UNCHANGED <<now, paths, idx, password, ret, temp_dir, tar_path,
                   delete_originals, success, bundle, missing_tools>>
    /\ UNCHANGED decVars

Step8Keep(files, archive_path) == files
\* lines 560-564: os.remove(tar_path)
Step8Remove(files, archive_path) == files \ {archive_path}

DeleteWhenAsked(ok, wanted) == wanted
\* line 567: if success and delete_originals
DeleteAfterSuccess(ok, wanted) == ok /\ wanted

\* lines 557-567: take encrypt_file's result, remove the archive and forget
\* its path, then decide whether the originals are deleted
EncReturn ==
    /\ pc = "enc_ret"
    /\ success' = (ch.ret = "True")
    /\ fs' = Step8Remove(fs, tar_path)
    /\ tar_path' = <<>>
    /\ idx' = 1
    /\ pc' = IF DeleteAfterSuccess(ch.ret = "True", delete_originals)
             THEN "e_delete" ELSE "e_notify"
    /\ ch' = ChIdle
    /\ UNCHANGED <<now, paths, password, procs, ret, temp_dir,
                   delete_originals, tar_created, bundle, missing_tools>>
    /\ UNCHANGED decVars

\* lines 568-574: one iteration of the deletion loop.  secure_delete (lines
\* 854-870) falls back to os.remove when shred exits with failure; a
\* missing shred raises FileNotFoundError, which it does not catch.
EncDelete ==
    /\ pc = "e_delete"
    /\ LET item_path == paths[idx]
           advance == IF idx < Len(paths) THEN idx' = idx + 1 /\ pc' = "e_delete"
                      ELSE idx' = idx /\ pc' = "e_notify"
       IN IF IsFile(fs, item_path)
          THEN \/ /\ "shred" \notin missing_tools
                  /\ procs' = procs \cup {ShredProc(item_path)}
                  /\ \E removed \in BOOLEAN :
                       fs' = IF removed THEN fs \ {item_path} ELSE fs
                  /\ advance
               \/ /\ "shred" \in missing_tools
                  /\ pc' = "e_except"
                  /\ UNCHANGED <<procs, fs, idx>>
          ELSE IF IsDir(fs, item_path) /\ validate_path(PathString(item_path))
          THEN \/ /\ fs' = fs \ {item_path}
                  /\ advance
                  /\ UNCHANGED procs
               \/ /\ pc' = "e_except"
                  /\ UNCHANGED <<procs, fs, idx>>
          ELSE advance /\ UNCHANGED <<procs, fs>>
    /\ UNCHANGED <<now, paths, password, ret, ch>>
    /\ UNCHANGED decVars
    /\ UNCHANGED encVars

\* show_notification with its message, lines 1064-1074
NotifyMessageProc(title, message) ==
    Proc(<<Arg("notify-send"), Arg("-i"), Arg("dialog-information"), Arg(title),
           message>>, "none", <<>>)
\* lines 578-582: the text of the success notification, without the count
\* of cleaned files
DoneMessage(archive_path, wanted) ==
    <<"items -> ">> \o Tail(EncryptedPath(archive_path))
                   \o (IF wanted THEN <<" (originals deleted)">> ELSE <<>>)

\* lines 577-587
EncNotify ==
    /\ pc = "e_notify"
    /\ procs' = procs \cup {IF success
                            THEN NotifyMessageProc("Done",
                                     DoneMessage(TarPath(paths), delete_originals))
                            ELSE ErrorProc("Error", "Encryption failed")}
    /\ pc' = "e_finally"
    /\ UNCHANGED <<now, paths, idx, password, fs, ret, ch>>
    /\ UNCHANGED decVars
    /\ UNCHANGED encVars

\* lines 589-592
EncExcept ==
    /\ pc = "e_except"
    /\ procs' = procs \cup {ErrorProc("Error", "exception text")}
    /\ pc' = "e_finally"
    /\ UNCHANGED <<now, paths, idx, password, fs, ret, ch>>
    /\ UNCHANGED decVars
    /\ UNCHANGED encVars

\* lines 594-605: the finally clause, then the callback returns False
EncFinally ==
    /\ pc = "e_finally"
    /\ fs' = LET f1 == IF tar_path # <<>> THEN fs \ {tar_path} ELSE fs
             IN IF temp_dir # <<>> THEN RmTree(f1, temp_dir) ELSE f1
    /\ pc' = "returned"
    /\ UNCHANGED <<now, paths, idx, password, procs, ret, ch>>
    /\ UNCHANGED decVars
    /\ UNCHANGED encVars

ChannelStep ==
    \/ ChOpen
    \/ ChSpawn
    \/ ChCloseSlave
    \/ ChWrite
    \/ ChWait
    \/ ChExcept
    \/ ChFinally

DecryptStep ==
    /\ UNCHANGED encVars
    /\ UNCHANGED pathVars
    /\ UNCHANGED preexisting
    /\ \/ Verify /\ UNCHANGED list_returncode
       \/ /\ UNCHANGED verified
          /\ \/ TarList
             \/ /\ UNCHANGED list_returncode
                /\ \/ RateCheck
                   \/ AskPassword
                   \/ DecryptCall
                   \/ DecryptReturn
                   \/ TarExtract
                   \/ ExtractFailed
                   \/ Report
                   \/ ChannelStep

EncryptStep ==
    /\ UNCHANGED pathVars
    /\ UNCHANGED preexisting
    /\ \/ EncAsk
       \/ EncCopy
       \/ EncTar
       \/ EncReturn
       \/ EncDelete
       \/ EncNotify
       \/ EncExcept
       \/ EncFinally
       \/ UNCHANGED encVars /\ UNCHANGED <<verified, list_returncode>> /\ ChannelStep

\* Decrypt activations with the clock running and no output file in
\* place beforehand: the rate limiter's world
Next ==
    \/ StartDecrypt /\ preexisting' = {}
    \/ Returned /\ op' = "none"
    \/ UNCHANGED op /\ (Tick \/ DecryptStep)

Spec == Init /\ [][Next]_vars

\* The rate limiter over time: decrypt activations of one target each, in
\* which time keeps passing (the clock moves wherever the program waits)
\* and a callback that has started runs to its end (every blocking call
\* has a timeout: lines 951, 1034, 717, 787)
Elapse == UNCHANGED op /\ Tick
Run ==
    \/ Returned /\ op' = "none"
    \/ UNCHANGED op /\ DecryptStep
NextLive ==
    \/ StartDecrypt /\ preexisting' = {} /\ Len(paths') = 1
    \/ Run
    \/ Elapse

SpecLive == Init /\ [][NextLive]_vars /\ WF_vars(Run) /\ SF_vars(Elapse)

\* Encrypt activations
NextEnc ==
    \/ StartEncrypt
    \/ Returned /\ op' = "none"
    \/ UNCHANGED op /\ EncryptStep

SpecEnc == Init /\ [][NextEnc]_vars

\* Both kinds of activation, with the clock stopped and no archive of the
\* user's in place before an encryption
NextAll ==
    \/ StartDecrypt
    \/ StartEncrypt /\ preexisting' = {}
    \/ Returned /\ op' = "none"
    \/ UNCHANGED op /\ (DecryptStep \/ EncryptStep)

SpecAll == Init /\ [][NextAll]_vars

\* validate_path as a function of its argument
InitPath ==
    /\ Constructed
    /\ vp_path \in PathStrings
    /\ vp_result = "none"

NextPath ==
    /\ ValidatePath
    /\ UNCHANGED <<now, failed_attempts, pc, paths, idx, password, fs, procs, ret,
                   ch, op, preexisting>>
    /\ UNCHANGED decVars
    /\ UNCHANGED encVars

SpecPath == InitPath /\ [][NextPath]_vars

\* ================================================================ claims
Returning == pc \in {"dec_ret", "enc_ret"}
InsideWindow(attempts, time) ==
    SelectSeq(attempts, LAMBDA t : time - t < RATE_LIMIT_WINDOW_SECONDS)
LockedOut(attempts, time) ==
    /\ Len(InsideWindow(attempts, time)) >= RATE_LIMIT_MAX_ATTEMPTS
    /\ time - Last(InsideWindow(attempts, time)) < RATE_LIMIT_LOCKOUT_SECONDS
Ledger(fa, p) == IF p \in DOMAIN fa THEN fa[p] ELSE <<>>

\* C1: age is never spawned in decrypt mode for a path whose ledger, at the
\* moment of the spawn, holds 3 or more failures inside the window with the
\* latest one less than 30 s old.
C1_SpawnGated ==
    (ch.mode = "decrypt" /\ pc = "ch_close_slave")
        => ~LockedOut(Ledger(failed_attempts, ch.input_path), now)

\* C2: a rate-limit check returns not-allowed exactly when the failures
\* inside the window number at least 3 and the latest is strictly less
\* than 30 s old; otherwise it returns allowed.
C2_CheckExact ==
    [][pc = "rl_check" =>
          ((pc' = "returned") <=> LockedOut(Ledger(failed_attempts, paths[idx]), now))]_vars
C2_Witness ==
    /\ pc = "returned"
    /\ ErrorProc("Rate Limited", "Too many failed attempts") \in procs
    /\ Len(Ledger(failed_attempts, paths[idx])) = 3

C3_SuccessClears ==
    (pc = "dec_ret" /\ ch.ret = "True")
        => /\ Ledger(failed_attempts', paths[idx]) = <<>>
           /\ ~LockedOut(Ledger(failed_attempts', paths[idx]), now')
C3_FailureRecorded == pc = "dec_ret" /\ ch.ret # "True"
\* C3 as stated: a success empties the path's ledger, and a ledger entry
\* comes into existence only in a step that records a failure for it.
C3_LazyEntry ==
    [][/\ C3_SuccessClears
       /\ \A p \in DecryptPaths :
             (p \in DOMAIN failed_attempts' /\ p \notin DOMAIN failed_attempts)
                 => (C3_FailureRecorded /\ p = paths[idx])]_vars
\* C3 amended: a success empties the path's ledger so that the next check
\* allows it, and a ledger comes to hold a timestamp only in a step that
\* records a failure for it (a check may create an empty entry).
C3_NonEmptyOnlyByFailure ==
    [][/\ C3_SuccessClears
       /\ \A p \in DecryptPaths :
             (Ledger(failed_attempts', p) # <<>> /\ Ledger(failed_attempts, p) = <<>>)
                 => (C3_FailureRecorded /\ p = paths[idx])]_vars
C3_Witness ==
    /\ pc = "report"
    /\ paths = <<AgeA, AgeA>>
    /\ success_count = 1
    /\ fail_count = 1
    /\ Ledger(failed_attempts, AgeA) = <<>>

IsAgeProc(p) == p.argv[1] = <<"age">>
\* C4: whenever the passphrase prompt has been issued or age has been
\* spawned, every target of the batch has been verified and none lacked
\* the magic string in its first 100 bytes; age is spawned only after the
\* prompt.
C4_VerifyBeforePrompt ==
    /\ (PromptProc \in procs \/ \E p \in procs : IsAgeProc(p))
          => (op = "decrypt" => (~bad_seen /\ verified = 1..Len(paths)))
    /\ (op = "decrypt" /\ \E p \in procs : IsAgeProc(p)) => PromptProc \in procs
C4_Witness ==
    /\ pc = "returned"
    /\ bad_seen
    /\ Len(paths) = 2
    /\ verified = {1, 2}
    /\ ErrorProc("Invalid files", "Not valid .age files") \in procs

C5_Invalid == { i \in 1..Len(paths) :
                   \E k \in 1..Len(invalid_files) : invalid_files[k] = Tail(paths[i]) }
C5_Erred ==
    (IF ErrorProc("Rate Limited", "Too many failed attempts") \in procs THEN {idx} ELSE {})
    \cup C5_Invalid
    \cup (IF \/ fail_count > 0
              \/ (ret = "raised" /\ members # <<>>)
              \/ ErrorProc("Error", "Extraction failed") \in procs
          THEN attempted ELSE {})
\* C5: when a decrypt batch ends, for every target that met a per-target
\* error every other target of the batch has been attempted, and every
\* attempted target is counted.
C5_SiblingsAttempted ==
    (op = "decrypt" /\ pc = "returned")
        => /\ \A t \in C5_Erred : \A u \in (1..Len(paths)) \ {t} : u \in attempted
           /\ (C5_Erred # {} => success_count + fail_count = Cardinality(attempted))

C6_Unsafe(archive) ==
    \E i \in 1..Len(archive) :
        archive[i][1] = "/" \/ \E j \in 1..Len(archive[i]) : archive[i][j] = ".."
\* C6: tar is never run in extract mode on an archive that has an absolute
\* member or a member with a parent-directory segment.
C6_NoExtractOfUnsafe ==
    \A p \in procs :
        (Len(p.argv) >= 2 /\ p.argv[2] = <<"-xzf">>) => ~C6_Unsafe(p.archive)

\* C7: encrypt_file / decrypt_file return True exactly when the child
\* completed within the timeout with exit status 0 and the output file
\* existed.
C7_TrueIffExitZeroAndOutput ==
    Returning =>
        ((ch.ret = "True") <=>
            (ch.exc = "none" /\ ch.returncode = 0 /\ ch.exists_at_exit))
C7_Witness ==
    /\ Returning
    /\ ch.exc = "none"
    /\ ch.returncode = 0
    /\ ~ch.exists_at_exit
    /\ ch.ret = "False"

\* C8: when encrypt_file or decrypt_file returns False, no file exists at
\* output_path.
C8_NoOutputOnFailure ==
    (Returning /\ ch.ret = "False") => ch.output_path \notin fs

\* C9: no spawned process has the passphrase in its argument vector, and
\* the passphrase reaches a process only through the PTY.
C9_SecretOnlyOnPty ==
    \A p \in procs :
        /\ \A i \in 1..Len(p.argv) : \A j \in 1..Len(p.argv[i]) :
              p.argv[i][j] \notin Passphrases
        /\ p.stdin # "pipe"

\* C10: once created, the plaintext archive is gone when the operation
\* returns, and already gone when encrypt_file's result has been taken,
\* before any original is deleted.
C10_ArchiveGone ==
    /\ (op = "encrypt" /\ tar_created /\ pc \in {"e_delete", "e_notify", "returned"})
          => TarPath(paths) \notin fs
    /\ (op = "encrypt" /\ tar_created /\ \E p \in EncryptPaths : p \notin fs)
          => TarPath(paths) \notin fs
C10_Witness ==
    /\ op = "encrypt"
    /\ pc = "returned"
    /\ tar_created
    /\ ~success
    /\ \E p \in procs : IsAgeProc(p)

\* The staging directory or anything staged inside it
UnderStaging(files) == { f \in files : f[1] = TempDir[1] }

OriginalsGone == { i \in 1..Len(paths) : paths[i] \notin fs }

\* C12: during and after an encrypt operation an original is missing from
\* the disk only if encrypt_file returned True and the user chose
\* 'Encrypt & Delete'; after a failed encryption, or with 'keep' or
\* 'cancel', every original is still in place.
C12_DeleteOnlyAfterSuccess ==
    (op = "encrypt" /\ OriginalsGone # {}) => (success /\ delete_originals)
\* 'Encrypt & Delete' was chosen, the archive was made, encrypt_file did not
\* return True, and the operation has returned with every original in place
C12_Witness ==
    /\ op = "encrypt"
    /\ pc = "returned"
    /\ delete_originals
    /\ tar_created
    /\ ~success
    /\ \E x \in procs : IsAgeProc(x)
    /\ OriginalsGone = {}

\* The components of the resolved form of the path under validation
ResolvedComponents == JoinRealPath(<<>>, split(vp_path))
DenyRoots == { <<"bin">>, <<"sbin">>, <<"usr">>, <<"etc">>, <<"var">>, <<"boot">>,
               <<"root">> }

\* C13: validate_path returns True exactly for the absolute paths whose
\* resolved form has no '..' component and whose first component is not
\* one of bin, sbin, usr, etc, var, boot, root; so it returns False for a
\* deny-listed root itself, for everything below one (also when reached
\* through a symbolic link or through '..') and for every relative path,
\* and True for a sibling such as /usrdata or /rooted.
C13_DenyListExact ==
    vp_result # "none" =>
        (vp_result = "True" <=>
            /\ isabs(vp_path)
            /\ \A i \in 1..Len(ResolvedComponents) : ResolvedComponents[i] # <<"..">>
            /\ (ResolvedComponents = <<>> \/ ResolvedComponents[1] \notin DenyRoots))
\* the sibling /usrdata has been validated and accepted
C13_Witness ==
    /\ vp_path = <<Sep, "usr", "data">>
    /\ vp_result = "True"

SingleTargetDone == op = "encrypt" /\ pc = "returned" /\ Len(paths) = 1 /\ success

\* C14: after a successful encryption of exactly one target named N, the
\* artifact N.tar.gz.age exists in the target's directory and the
\* intermediate archive N.tar.gz does not.
C14_ArtifactNamedAfterArchive ==
    SingleTargetDone =>
        /\ paths[1] \o <<".tar.gz", ".age">> \in fs
        /\ paths[1] \o <<".tar.gz">> \notin fs
\* C14 as stated: the artifact is N.age, and N.tar.gz does not exist
C14_ArtifactNamedAfterTarget ==
    SingleTargetDone =>
        /\ paths[1] \o <<".age">> \in fs
        /\ paths[1] \o <<".tar.gz">> \notin fs
\* report.pdf alone was encrypted with success
C14_Witness ==
    /\ SingleTargetDone
    /\ paths = <<FileF>>
    /\ <<"/d/", "report", ".pdf", ".tar.gz", ".age">> \in fs

C16_EveryTargetStaged ==
    (op = "encrypt" /\ pc = "returned" /\ success) =>
        \A i \in 1..Len(paths) : <<Tail(paths[i]), paths[i]>> \in bundle

\* C17: a call of secure_delete on an existing file never lets an exception
\* out, so that the deletion loop goes on to the remaining originals, and
\* when shred cannot be spawned the file is removed all the same.
C17_FallbackWhenShredMissing ==
    [][ (op = "encrypt" /\ pc = "e_delete" /\ IsFile(fs, paths[idx])) =>
            /\ pc' # "e_except"
            /\ ("shred" \in missing_tools => paths[idx] \notin fs') ]_vars

\* The summary of lines 677-683 has been shown
Reported ==
    /\ pc = "returned"
    /\ ret = "False"
    /\ (NotifyProc("Done") \in procs \/ ErrorProc("Error", "Failed") \in procs)

\* C18: in the decrypt loop success_count + fail_count is the number of
\* targets whose decrypt_file call has returned: idx - 1 until the result
\* of target idx is taken, idx while its archive is listed and extracted;
\* when the loop is over and when the summary has been shown it is the
\* number of targets of the batch.
C18_CountsMatchProcessed ==
    op = "decrypt" =>
        /\ pc \in {"dec", "ch_open", "ch_spawn", "ch_close_slave", "ch_write", "ch_wait",
                    "ch_except", "ch_finally", "dec_ret"}
              => success_count + fail_count = idx - 1
        /\ pc \in {"list", "extract", "extract_err"} => success_count + fail_count = idx
        /\ (pc = "report" \/ Reported) => success_count + fail_count = Len(paths)
\* a batch of two targets is over with one success and one failure
C18_Witness ==
    /\ op = "decrypt"
    /\ Reported
    /\ Len(paths) = 2
    /\ success_count = 1
    /\ fail_count = 1

\* A tool the operation under way needs is not installed
RequiredToolMissing ==
    \/ "tar" \in missing_tools
    \/ (delete_originals /\ "shred" \in missing_tools)

\* C19: in an encrypt operation that lacks tar, or lacks shred when the
\* deletion of the originals was asked for, nothing is staged, no archive
\* is written, age is not spawned and every original stays in place.
C19_MissingToolShortCircuits ==
    (op = "encrypt" /\ RequiredToolMissing) =>
        /\ bundle = {}
        /\ ~tar_created
        /\ ~\E x \in procs : IsAgeProc(x)
        /\ OriginalsGone = {}

\* The ledgers of all paths other than p are the same before and after
OtherLedgersKept(p) ==
    \A q \in (DOMAIN failed_attempts \cup DOMAIN failed_attempts') \ {p} :
        /\ q \in DOMAIN failed_attempts
        /\ q \in DOMAIN failed_attempts'
        /\ failed_attempts'[q] = failed_attempts[q]

\* C20: taking a failed result of decrypt_file for a path appends exactly
\* the current time to that path's ledger; that step, the step taking a
\* successful result and a rate-limit check of a path leave the ledgers of
\* all other paths as they were, and no other step of a decrypt operation
\* changes any ledger.
C20_LedgerPerPath ==
    [][ op = "decrypt" =>
          /\ (pc = "dec_ret" /\ ch.ret # "True") =>
                Ledger(failed_attempts', paths[idx])
                    = Append(Ledger(failed_attempts, paths[idx]), now)
          /\ pc \in {"dec_ret", "rl_check"} => OtherLedgersKept(paths[idx])
          /\ pc \notin {"dec_ret", "rl_check"} => failed_attempts' = failed_attempts
      ]_vars
\* b.tar.gz.age failed at time 0; later a.age failed at time 15 in a batch
\* holding both, and b's ledger is as it was
C20_Witness ==
    /\ op = "decrypt"
    /\ pc = "dec"
    /\ paths = <<AgeA, AgeB>>
    /\ idx = 2
    /\ fail_count = 1
    /\ Ledger(failed_attempts, AgeA) = <<15>>
    /\ Ledger(failed_attempts, AgeB) = <<0>>

\* The failures of the path being checked that are inside the window
CheckedWindow == InsideWindow(Ledger(failed_attempts, paths[idx]), now)

\* C21: when the path under a rate-limit check has at least 3 failures
\* inside the window, the earliest of them 30 s old or older, the check
\* refuses the path as long as the latest failure is less than 30 s old,
\* and allows it once the latest failure is 30 s old: the cool-down runs
\* from the last failure, not from the first.
C21_LockoutFromLastFailure ==
    [][ (/\ pc = "rl_check"
         /\ Len(CheckedWindow) >= RATE_LIMIT_MAX_ATTEMPTS
         /\ now - CheckedWindow[1] >= RATE_LIMIT_LOCKOUT_SECONDS) =>
            IF now - Last(CheckedWindow) < RATE_LIMIT_LOCKOUT_SECONDS
            THEN pc' = "returned" /\ ret' = "False"
            ELSE pc' # "returned" ]_vars
\* a.age failed at 15 and 30, was free again, failed once more at 300 and
\* has been refused at 300
C21_Witness ==
    /\ pc = "returned"
    /\ now = 300
    /\ paths[idx] = AgeA
    /\ Ledger(failed_attempts, AgeA) = <<15, 30, 300>>
    /\ ErrorProc("Rate Limited", "Too many failed attempts") \in procs

\* C22: a rate-limit check leaves in the path's ledger exactly the
\* timestamps less than 300 s old, in their order, and refuses the path only
\* if at least 3 of those remain; failures 300 s old or older do not count.
C22_PrunedBeforeCounting ==
    [][ pc = "rl_check" =>
          /\ Ledger(failed_attempts', paths[idx]) = CheckedWindow
          /\ \A i \in 1..Len(Ledger(failed_attempts', paths[idx])) :
                now - Ledger(failed_attempts', paths[idx])[i] < 300
          /\ (pc' = "returned" => Len(CheckedWindow) >= 3) ]_vars
\* a.age has been checked at time 300 and its ledger holds nothing, while
\* the failure of b.tar.gz.age at time 0, which was not checked, is still
\* on b's ledger
C22_Witness ==
    /\ op = "decrypt"
    /\ pc = "verify"
    /\ now = 300
    /\ paths = <<AgeA>>
    /\ AgeA \in DOMAIN failed_attempts
    /\ Ledger(failed_attempts, AgeA) = <<>>
    /\ AgeB \in DOMAIN failed_attempts
    /\ Ledger(failed_attempts, AgeB) = <<0>>

\* C23: tar is run in extract mode only when the list-mode run before it
\* exited with 0 and no listed member is absolute or has a parent-directory
\* segment.
C23_ExtractOnlyAfterValidList ==
    [][ pc = "extract" => (list_returncode = 0 /\ ~C6_Unsafe(members)) ]_vars

\* C24: when encrypt_file or decrypt_file returns, no PTY descriptor is
\* open in the parent, and if openpty had succeeded each of the two was
\* closed with success exactly once; at no time has a descriptor been
\* closed with success twice.
C24_DescriptorsClosedOnce ==
    /\ ch.closes.master <= 1
    /\ ch.closes.slave <= 1
    /\ Returning =>
          /\ ch.open_fds = {}
          /\ ch.master_fd # "None" => (ch.closes.master = 1 /\ ch.closes.slave = 1)
\* openpty succeeded, the spawn raised OSError, and the function has
\* returned with both descriptors closed by the finally clause
C24_Witness ==
    /\ Returning
    /\ ch.exc = "OSError"
    /\ ch.process = "None"
    /\ ch.master_fd # "None"
    /\ ch.slave_fd # "None"
    /\ ch.open_fds = {}

\* C25: when encrypt_file or decrypt_file returns, a child that was spawned
\* has terminated and has been waited for.
C25_ChildReaped ==
    Returning => ch.process \in {"None", "reaped"}

\* C26: when encrypt_file or decrypt_file returns after the wait for the
\* child timed out, the child has been killed and waited for, the result
\* is False, and the caller counts no success, whether or not an output
\* file exists.
C26_TimeoutKillsAndFails ==
    [][ (Returning /\ ch.exc = "TimeoutExpired") =>
            /\ ch.process = "reaped"
            /\ ch.ret = "False"
            /\ success_count' = success_count
            /\ ~success' ]_vars
\* encrypt_file returns after a timeout with the output file on disk
C26_Witness ==
    /\ pc = "enc_ret"
    /\ ch.exc = "TimeoutExpired"
    /\ ch.output_path \in fs
    /\ ch.process = "reaped"
    /\ ch.ret = "False"

\* The step in which the wait for the child ends, with an exit status or
\* with a timeout
WaitEnds ==
    /\ ch.returncode = -1 /\ ch.exc = "none"
    /\ (ch'.returncode # -1 \/ ch'.exc = "TimeoutExpired")

\* C27: the child is spawned while both descriptors of the pair are open;
\* the parent closes the slave only after the spawn; each write of the
\* passphrase happens with the slave closed in the parent, the master open,
\* the child running and the wait not begun; the wait begins only when the
\* passphrase has been written twice (encrypt) or once (decrypt), and
\* nothing is written afterwards.
C27_HandshakeOrder ==
    [][ /\ (ch.process = "None" /\ ch'.process = "running")
              => ch.open_fds = {"master", "slave"}
        /\ ("slave" \in ch.open_fds /\ "slave" \notin ch'.open_fds /\ ch.exc = "none")
              => ch.process = "running"
        /\ ch'.writes # ch.writes =>
              \/ ch'.writes = 0
              \/ /\ ch'.writes = ch.writes + 1
                 /\ ch.open_fds = {"master"}
                 /\ ch.process = "running"
                 /\ ch.returncode = -1
                 /\ ch.exc = "none"
        /\ WaitEnds => ch.writes = (IF ch.mode = "encrypt" THEN 2 ELSE 1)
        /\ ch.writes <= (IF ch.mode = "encrypt" THEN 2 ELSE 1) ]_vars
\* encrypt_file returns True after two writes and the wait
C27_Witness ==
    /\ pc = "enc_ret"
    /\ ch.ret = "True"
    /\ ch.writes = 2
    /\ ch.process = "reaped"

\* C28: in the deletion loop of _do_encrypt_items shred is run on an
\* original, and an original leaves the disk, only if validate_path accepts
\* its path; an original below a deny-listed root stays.
C28_GuardBeforeRemoval ==
    [][ (op = "encrypt" /\ pc = "e_delete"
            /\ \/ ShredProc(paths[idx]) \in procs' \ procs
               \/ (paths[idx] \in fs /\ paths[idx] \notin fs'))
          => validate_path(PathString(paths[idx])) ]_vars

\* C29: whenever _do_encrypt_items or _do_decrypt_files is left, it is by
\* returning False, never by an exception.
C29_CallbackReturnsFalse ==
    pc = "returned" => ret = "False"

\* C30: when decrypt_file returns False for an output path at which a file
\* lay before the operation began, that file is still there.
C30_FailureKeepsOldFile ==
    (op = "decrypt" /\ pc = "dec_ret" /\ ch.ret = "False"
        /\ ch.output_path \in preexisting) => ch.output_path \in fs

\* C31: when _do_encrypt_items is left, a file of the user's that lay at the
\* intermediate archive path before the operation is still on disk and tar
\* has not written over it.
C31_ForeignArchiveKept ==
    (op = "encrypt" /\ pc = "returned") =>
        \A p \in preexisting :
            /\ p \in fs
            /\ ~(tar_created /\ p = TarPath(paths))

\* The notification says that the originals were deleted
SaysOriginalsDeleted(p) ==
    /\ p.argv[1] = Arg("notify-send")
    /\ Last(Last(p.argv)) = " (originals deleted)"

\* C32: once _do_encrypt_items has issued the notification that ends in
\* "(originals deleted)", none of the targets it was given is on disk.
C32_DeletedMeansGone ==
    (op = "encrypt" /\ \E p \in procs : SaysOriginalsDeleted(p)) =>
        \A i \in 1..Len(paths) : paths[i] \notin fs

\* C33: after a cancelled or timed-out encrypt dialog the operation ends
\* with no staging directory, archive, artifact or child process of tar,
\* age or shred, and with every file as it was; after a cancelled prompt or
\* an empty passphrase the decrypt operation ends with no age process, no
\* new file, and the ledgers as they were before the prompt.
C33_CancelLeavesNoTrace ==
    /\ []((op = "encrypt" /\ pc \in {"e_finally", "returned"} /\ password = "None")
            => /\ fs = InitialFiles \cup preexisting
               /\ temp_dir = <<>> /\ tar_path = <<>> /\ ~tar_created
               /\ \A p \in procs :
                     p.argv[1] \notin {Arg("age"), Arg("tar"), Arg("shred")})
    /\ []((op = "decrypt" /\ pc = "returned" /\ PromptProc \in procs
              /\ NoPassword(password))
            => /\ fs = InitialFiles \cup preexisting
               /\ \A p \in procs : ~IsAgeProc(p))
    /\ [][(pc = "ask" /\ pc' = "returned") => failed_attempts' = failed_attempts]_vars
C33_Witness ==
    /\ op = "decrypt"
    /\ pc = "returned"
    /\ PromptProc \in procs
    /\ password = ""
    /\ paths = <<AgeA, AgeB>>
    /\ preexisting # {}

\* A check of p made now would refuse it
Blocked(p) == ~check_rate_limit(failed_attempts, p, now)
LastFailure(p) == Last(Ledger(failed_attempts, p))
ClockEnd == CHOOSE t \in ClockValues : \A u \in ClockValues : u <= t

\* C34: for every target, a check made 30 s or more after its last failure
\* allows it, and one made 300 s or more after its last failure leaves its
\* ledger empty; the running check does the same; and a target that is
\* refused is, in time, allowed again (as far as the clock of the model
\* reaches).
C34_LockoutEnds ==
    /\ [](\A p \in DecryptPaths :
            Ledger(failed_attempts, p) # <<>> =>
              /\ now - LastFailure(p) >= RATE_LIMIT_LOCKOUT_SECONDS => ~Blocked(p)
              /\ now - LastFailure(p) >= RATE_LIMIT_WINDOW_SECONDS =>
                    Ledger(CheckLedger(failed_attempts, p, now), p) = <<>>)
    /\ [][(pc = "rl_check" /\ Ledger(failed_attempts, paths[idx]) # <<>>) =>
            /\ now - LastFailure(paths[idx]) >= RATE_LIMIT_LOCKOUT_SECONDS
                  => pc' # "returned"
            /\ now - LastFailure(paths[idx]) >= RATE_LIMIT_WINDOW_SECONDS
                  => Ledger(failed_attempts', paths[idx]) = <<>>]_vars
    /\ \A p \in DecryptPaths :
          (Blocked(p) /\ LastFailure(p) + RATE_LIMIT_LOCKOUT_SECONDS <= ClockEnd)
              ~> ~Blocked(p)
\* b.tar.gz.age failed three times at time 0, and a check at time 30 has
\* let it through
C34_Witness ==
    /\ op = "decrypt"
    /\ pc = "verify"
    /\ now = 30
    /\ paths = <<AgeB>>
    /\ Ledger(failed_attempts, AgeB) = <<0, 0, 0>>

====
